---- MODULE Spec2Model ----
(***************************************************************************)
(* A model of the serpshot client SDK: the response normalizer and the     *)
(* request parameters of serpshot/_base.py and serpshot/models.py, the     *)
(* retrying HTTP transport of serpshot/_http.py, and the two clients of    *)
(* serpshot/client.py and serpshot/async_client.py.                        *)
(*                                                                         *)
(* JSON objects are records that carry the set of keys present (keys) and  *)
(* the keys whose value is JSON null (nulls); Get follows dict.get.        *)
(***************************************************************************)
EXTENDS Integers, Sequences, FiniteSets, TLC

VARIABLES
    n_pc,        \* normalizer: "ready" before _process_search_response, "done" after
    n_data,      \* normalizer: the raw backend payload handed to it
    n_query,     \* normalizer: the caller's query (a string or a list of strings)
    n_out,       \* normalizer: what _process_search_response returned or raised
    mode,        \* transport: "sync" (HTTPClient) or "async" (AsyncHTTPClient)
    max_retries, \* transport: self.max_retries
    h_client,    \* transport: self._client, 0 for None, else the pool's number
    r_pc,        \* transport: position of the one request call
    attempt,     \* transport: the loop variable of request
    last_error,  \* transport: the local last_error of request
    log,         \* transport: the outcome of every client.request call, in order
    waits,       \* transport: every sleep, in order: its seconds, and the attempts made before it
    outcome,     \* transport: what request returned or raised
    b_pc,        \* parameters: "ready" before _build_search_request_params, "done" after
    b_args,      \* parameters: the arguments of _build_search_request_params
    b_out,       \* parameters: the dict it returned, or what it raised
    c_pc,        \* client: "new" before the constructor, then "ready" or "failed"
    c_key,       \* client: self.auth.api_key
    pools,       \* client: every httpx client made for self._http, in order; open or closed
    c_ops,       \* client: the number of calls made on the client so far
    c_last,      \* client: the last call: its name, arguments, requests and result
    a_pc,        \* auth: "new" before AuthHandler(...), then "ready" or "failed", then "validated"
    a_arg,       \* auth: the api_key argument of AuthHandler(...)
    a_key,       \* auth: self.api_key
    a_out,       \* auth: what the last call on the handler raised, if anything
    t_pc,        \* callers sharing one transport: the position of each caller's request
    t_client,    \* callers: each caller's local variable client, 0 before it is set
    t_attempt,   \* callers: each caller's loop variable attempt
    t_seen,      \* callers: what each caller's attempts met: the pools used, a closed pool
    closer       \* callers: the position of the one call of close

norm_vars == <<n_pc, n_data, n_query, n_out>>
req_vars == <<mode, max_retries, h_client, r_pc, attempt, last_error, log, waits, outcome>>
build_vars == <<b_pc, b_args, b_out>>
cli_vars == <<c_pc, c_key, pools, c_ops, c_last>>
auth_vars == <<a_pc, a_arg, a_key, a_out>>
conc_vars == <<t_pc, t_client, t_attempt, t_seen, closer>>
vars == <<n_pc, n_data, n_query, n_out, mode, max_retries, h_client, r_pc, attempt,
          last_error, log, waits, outcome, b_pc, b_args, b_out, c_pc, c_key, pools,
          c_ops, c_last, a_pc, a_arg, a_key, a_out, t_pc, t_client, t_attempt, t_seen,
          closer>>

(***************************************************************************)
(* Bounds of the model.                                                    *)
(***************************************************************************)
MaxBatch == 2
MaxItems == 3
MaxRetriesBound == 3
MaxOps == 4
MaxKeyLen == 11

Min(a, b) == IF a < b THEN a ELSE b

SeqsUpTo(S, n) == UNION {[1..k -> S] : k \in 0..n}

\* dict.get(key, default) for a key whose value is not null
Get(d, k, default) == IF k \in d.keys THEN d[k] ELSE default

IsNull(d, k) == k \in d.keys /\ k \in d.nulls

(***************************************************************************)
(* Backend JSON: raw results, and the items of a payload.                  *)
(***************************************************************************)
RawOrganic ==
    [keys |-> {"title", "link", "snippet", "position"},
     title |-> "t1", link |-> "page1", snippet |-> "s1", imageUrl |-> "",
     thumbnailUrl |-> "", source |-> "", imageWidth |-> 0, imageHeight |-> 0,
     thumbnail |-> "", source_link |-> "", width |-> 0, height |-> 0,
     position |-> 1]

RawImage ==
    [keys |-> {"title", "link", "imageUrl", "thumbnailUrl", "source",
               "imageWidth", "imageHeight", "position"},
     title |-> "t2", link |-> "page2", snippet |-> "", imageUrl |-> "img2",
     thumbnailUrl |-> "thumb2", source |-> "site2", imageWidth |-> 640,
     imageHeight |-> 480,
     thumbnail |-> "", source_link |-> "", width |-> 0, height |-> 0,
     position |-> 1]

\* a backend image result with only its two URLs
RawImagePartial ==
    [RawImage EXCEPT !.keys = {"link", "imageUrl"}, !.link = "page3",
                     !.imageUrl = "img3"]

\* a result that has the fields of the client's ImageResult already
RawClientImage ==
    [keys |-> {"title", "link", "thumbnail", "source", "source_link", "width",
               "height", "position", "imageUrl"},
     title |-> "t4", link |-> "img4", snippet |-> "", imageUrl |-> "other4",
     thumbnailUrl |-> "", source |-> "site4", imageWidth |-> 0, imageHeight |-> 0,
     thumbnail |-> "thumb4", source_link |-> "page4", width |-> 32, height |-> 24,
     position |-> 2]

NoInfo == [keys |-> {}, nulls |-> {}, total_results |-> "", search_time |-> ""]
NoParams == [keys |-> {}, nulls |-> {}, type |-> "", q |-> ""]

\* None, a JSON scalar, an empty JSON array
ItemNone == [kind |-> "none", keys |-> {}, nulls |-> {}, search_info |-> NoInfo,
             search_params |-> NoParams, results |-> <<>>, credits |-> 0]
ItemScalar == [ItemNone EXCEPT !.kind = "scalar"]
ItemList0 == [ItemNone EXCEPT !.kind = "list0"]

\* a complete organic item that echoes the query "qe"
ItemOrganic ==
    [kind |-> "dict",
     keys |-> {"search_info", "results", "search_params", "credits"},
     nulls |-> {},
     search_info |-> [keys |-> {"total_results", "search_time"}, nulls |-> {},
                      total_results |-> "12", search_time |-> "0.5"],
     search_params |-> [keys |-> {"type", "q"}, nulls |-> {},
                        type |-> "search", q |-> "qe"],
     results |-> <<RawOrganic>>,
     credits |-> 1]

\* a partial item: no search_params, no search_info
ItemNoEcho ==
    [kind |-> "dict", keys |-> {"results", "credits"}, nulls |-> {},
     search_info |-> NoInfo, search_params |-> NoParams,
     results |-> <<>>, credits |-> 2]

\* an image item that echoes no query
ItemImage ==
    [kind |-> "dict",
     keys |-> {"search_info", "results", "search_params", "credits"},
     nulls |-> {},
     search_info |-> [keys |-> {"total_results"}, nulls |-> {},
                      total_results |-> "About 7", search_time |-> ""],
     search_params |-> [keys |-> {"type"}, nulls |-> {}, type |-> "image", q |-> ""],
     results |-> <<RawImage>>,
     credits |-> 2]

\* an image item whose second result lacks most fields
ItemImagePartial ==
    [ItemImage EXCEPT !.results = <<RawImage, RawImagePartial>>]

\* an item of type "search" whose results are in the client's image schema
ItemSearchClientImage ==
    [ItemOrganic EXCEPT !.results = <<RawClientImage>>]

\* an item without type whose result is in the backend's image schema
ItemNoTypeRawImage ==
    [ItemNoEcho EXCEPT !.results = <<RawImage>>]

\* a malformed item: "search_params": null
ItemNullParams ==
    [kind |-> "dict", keys |-> {"search_params", "credits"}, nulls |-> {"search_params"},
     search_info |-> NoInfo, search_params |-> NoParams,
     results |-> <<>>, credits |-> 1]

\* an item that is itself a non-empty array (parsed as its first element) is not drawn
WellFormedItems == {ItemNone, ItemScalar, ItemList0, ItemOrganic, ItemNoEcho, ItemImage,
                    ItemImagePartial, ItemSearchClientImage}
Items == WellFormedItems \cup {ItemNullParams, ItemNoTypeRawImage}

QueryStrings == {"qa", "qb"}

\* a payload: a JSON array of items, or one value that is not an array
Payloads ==
    {[isList |-> TRUE, items |-> s] : s \in SeqsUpTo(Items, MaxItems)}
    \cup {[isList |-> FALSE, items |-> <<x>>] : x \in Items \ {ItemList0}}

\* a query: one string, or a list of strings
Queries ==
    {[isStr |-> TRUE, qs |-> <<q>>] : q \in QueryStrings}
    \cup {[isStr |-> FALSE, qs |-> s] : s \in SeqsUpTo(QueryStrings, MaxBatch)}

(***************************************************************************)
(* Response models (serpshot/models.py) and the normalizer                 *)
(* (serpshot/_base.py).                                                    *)
(***************************************************************************)
SearchResultKeys == {"title", "link", "snippet", "position"}
ImageResultKeys == {"title", "link", "thumbnail", "source", "source_link",
                    "width", "height", "position"}

\* a backend result as the dict handed to validation when nothing is remapped
AsDict(r) ==
    [keys |-> r.keys, title |-> r.title, link |-> r.link, snippet |-> r.snippet,
     thumbnail |-> r.thumbnail, source |-> r.source, source_link |-> r.source_link,
     width |-> r.width, height |-> r.height, position |-> r.position]

\* a fault: the two URLs the other way round
transform_image_result_swapped(result) ==
    [keys |-> ImageResultKeys,
     title |-> Get(result, "title", ""),
     link |-> Get(result, "link", ""),
     snippet |-> "",
     thumbnail |-> Get(result, "thumbnailUrl", ""),
     source |-> Get(result, "source", ""),
     source_link |-> Get(result, "imageUrl", ""),
     width |-> Get(result, "imageWidth", 0),
     height |-> Get(result, "imageHeight", 0),
     position |-> Get(result, "position", 0)]

transform_image_result(result) ==
    [keys |-> ImageResultKeys,
     title |-> Get(result, "title", ""),
     link |-> Get(result, "imageUrl", ""),
     snippet |-> "",
     thumbnail |-> Get(result, "thumbnailUrl", ""),
     source |-> Get(result, "source", ""),
     source_link |-> Get(result, "link", ""),
     width |-> Get(result, "imageWidth", 0),
     height |-> Get(result, "imageHeight", 0),
     position |-> Get(result, "position", 0)]

SearchResult(d) ==
    [shape |-> "organic", title |-> d.title, link |-> d.link, snippet |-> d.snippet,
     thumbnail |-> "", source |-> "", source_link |-> "", width |-> 0, height |-> 0,
     position |-> d.position]

ImageResult(d) ==
    [shape |-> "image", title |-> d.title, link |-> d.link, snippet |-> "",
     thumbnail |-> d.thumbnail, source |-> d.source, source_link |-> d.source_link,
     width |-> d.width, height |-> d.height, position |-> d.position]

\* results: list[SearchResult] | list[ImageResult]
ResultsValid(ds) ==
    \/ \A i \in 1..Len(ds) : SearchResultKeys \subseteq ds[i].keys
    \/ \A i \in 1..Len(ds) : ImageResultKeys \subseteq ds[i].keys

ResultsModel(ds) ==
    IF \A i \in 1..Len(ds) : SearchResultKeys \subseteq ds[i].keys
    THEN [i \in 1..Len(ds) |-> SearchResult(ds[i])]
    ELSE [i \in 1..Len(ds) |-> ImageResult(ds[i])]

SearchResponse(query, total_results, search_time, results, credits_used) ==
    [success |-> TRUE, query |-> query, total_results |-> total_results,
     search_time |-> search_time, results |-> results, credits_used |-> credits_used]

\* what a call gives: a value, or an exception
Returned(resp) == [raised |-> FALSE, exc |-> "", resp |-> resp]
Raised(e) == [raised |-> TRUE, exc |-> e, resp |-> SearchResponse("", "", "", <<>>, 0)]

\* lines 135-161: data is neither None nor a list
ParseItem(data, query) ==
    LET isDict == data.kind = "dict"
        sp == data.search_params
        si == data.search_info
        search_type == IF isDict /\ ~IsNull(sp, "type")
                       THEN Get(Get(data, "search_params", NoParams), "type", "search")
                       ELSE IF isDict THEN "null" ELSE "search"
        raw == IF isDict THEN Get(data, "results", <<>>) ELSE <<>>
        results == IF search_type = "image"
                   THEN [i \in 1..Len(raw) |-> transform_image_result(raw[i])]
                   ELSE [i \in 1..Len(raw) |-> AsDict(raw[i])]
        q == IF isDict THEN Get(Get(data, "search_params", NoParams), "q", query)
             ELSE query
        info == IF isDict THEN Get(data, "search_info", NoInfo) ELSE NoInfo
        credits == IF isDict THEN Get(data, "credits", 0) ELSE 0
    IN  IF isDict /\ IsNull(data, "search_params")
        THEN Raised("AttributeError")
        ELSE IF isDict /\ search_type = "image" /\ IsNull(data, "results")
        THEN Raised("TypeError")
        ELSE IF isDict /\ IsNull(data, "search_info")
        THEN Raised("AttributeError")
        ELSE IF \/ isDict /\ (IsNull(data, "results") \/ IsNull(data, "credits"))
                \/ isDict /\ (IsNull(sp, "q") \/ IsNull(info, "total_results")
                              \/ IsNull(info, "search_time"))
                \/ ~ResultsValid(results)
        THEN Raised("ValidationError")
        ELSE Returned(SearchResponse(q, Get(info, "total_results", "0"),
                                     Get(info, "search_time", "0"),
                                     ResultsModel(results), credits))

\* a fault: no data is an error
parse_search_response_strict(data, query) ==
    IF data.kind \in {"none", "list0"}
    THEN Raised("ValueError")
    ELSE ParseItem(data, query)

parse_search_response(data, query) ==
    IF data.kind = "none"
    THEN Returned(SearchResponse(query, "0", "0", <<>>, 0))
    ELSE IF data.kind = "list0"
    THEN Returned(SearchResponse(query, "0", "0", <<>>, 0))
    ELSE ParseItem(data, query)

\* the first exception of a sequence of calls, evaluated in order
FirstRaised(rs) ==
    LET bad == {i \in 1..Len(rs) : rs[i].raised}
    IN  IF bad = {} THEN 0 ELSE CHOOSE i \in bad : \A j \in bad : i <= j

\* lines 228-229: a payload that is not a list becomes a one-element list
coerce_to_list(raw) == IF ~raw.isList THEN <<raw.items[1]>> ELSE raw.items

\* lines 232-240: no data at all
empty_responses(query) ==
    IF query.isStr
    THEN <<parse_search_response(ItemNone, query.qs[1])>>
    ELSE [i \in 1..Len(query.qs) |-> parse_search_response(ItemNone, query.qs[i])]

\* lines 246-249: zip(data, queries[: len(data)])
paired_responses(data, queries) ==
    LET head == SubSeq(queries, 1, Min(Len(data), Len(queries)))
    IN  [i \in 1..Min(Len(data), Len(head)) |-> parse_search_response(data[i], head[i])]

\* a fault: the missing entries are not filled in
fill_responses_none(responses, queries) == responses

\* a fault: the filled entries take the queries from the start of the list
fill_responses_shifted(responses, queries) ==
    IF Len(responses) < Len(queries)
    THEN responses \o [i \in 1..(Len(queries) - Len(responses)) |->
                          parse_search_response(ItemNone, queries[i])]
    ELSE responses

\* lines 252-258: responses.extend(... for q in queries[len(responses):])
fill_responses(responses, queries) ==
    IF Len(responses) < Len(queries)
    THEN responses \o [i \in 1..(Len(queries) - Len(responses)) |->
                          parse_search_response(ItemNone, queries[Len(responses) + i])]
    ELSE responses

\* a fault: the list is returned whatever the query was
return_shape_list(rs, query) ==
    IF FirstRaised(rs) # 0
    THEN [raised |-> TRUE, exc |-> rs[FirstRaised(rs)].exc, isList |-> FALSE,
          responses |-> <<>>]
    ELSE [raised |-> FALSE, exc |-> "", isList |-> TRUE,
          responses |-> [i \in 1..Len(rs) |-> rs[i].resp]]

\* line 261 (and 235, 238): one response for a string query, the list for a list;
\* an exception of any parse call leaves _process_search_response
return_shape(rs, query) ==
    IF FirstRaised(rs) # 0
    THEN [raised |-> TRUE, exc |-> rs[FirstRaised(rs)].exc, isList |-> FALSE,
          responses |-> <<>>]
    ELSE [raised |-> FALSE, exc |-> "", isList |-> ~query.isStr,
          responses |-> IF query.isStr THEN <<rs[1].resp>>
                        ELSE [i \in 1..Len(rs) |-> rs[i].resp]]

process_search_response(raw, query) ==
    LET data == coerce_to_list(raw)
    IN  IF data = <<>>
        THEN return_shape(empty_responses(query), query)
        ELSE return_shape(fill_responses(paired_responses(data, query.qs), query.qs),
                          query)

(***************************************************************************)
(* HTTP responses and _parse_response (serpshot/_http.py).                 *)
(***************************************************************************)
DigitValue ==
    ("0" :> 0) @@ ("1" :> 1) @@ ("2" :> 2) @@ ("3" :> 3) @@ ("4" :> 4) @@
    ("5" :> 5) @@ ("6" :> 6) @@ ("7" :> 7) @@ ("8" :> 8) @@ ("9" :> 9)

\* int(s) of a header string, given as its characters: decimal digits only
IsIntText(s) == Len(s) > 0 /\ \A i \in 1..Len(s) : s[i] \in DOMAIN DigitValue

RECURSIVE IntOfText(_)
IntOfText(s) ==
    IF Len(s) = 0 THEN 0
    ELSE 10 * IntOfText(SubSeq(s, 1, Len(s) - 1)) + DigitValue[s[Len(s)]]

NoJson == [keys |-> {}, code |-> 0, msg |-> "", error |-> "", data |-> ""]

\* body: "empty", "invalid" (not JSON), "array" (a JSON array) or "object"
Response(status, hasRetryAfter, retryAfter, body, json) ==
    [status_code |-> status, hasRetryAfter |-> hasRetryAfter, retryAfter |-> retryAfter,
     body |-> body, json |-> json]

Responses ==
    { Response(429, TRUE, <<"3", "0">>, "empty", NoJson),
      Response(429, TRUE, <<"7">>, "object", [NoJson EXCEPT !.keys = {"error"}, !.error = "slow down"]),
      Response(429, FALSE, <<>>, "empty", NoJson),
      Response(429, TRUE, <<"W", "e", "d">>, "empty", NoJson),
      Response(500, FALSE, <<>>, "object", [NoJson EXCEPT !.keys = {"error"}, !.error = "boom"]),
      Response(401, FALSE, <<>>, "object", [NoJson EXCEPT !.keys = {"msg"}, !.msg = "bad key"]),
      Response(402, FALSE, <<>>, "object",
               [NoJson EXCEPT !.keys = {"error"}, !.error = "no credits"]),
      Response(404, FALSE, <<>>, "empty", NoJson),
      Response(502, FALSE, <<>>, "invalid", NoJson),
      Response(400, FALSE, <<>>, "array", NoJson),
      Response(200, FALSE, <<>>, "object",
               [NoJson EXCEPT !.keys = {"code", "msg", "data"}, !.code = 200,
                              !.msg = "ok", !.data = "d1"]),
      Response(200, FALSE, <<>>, "object",
               [NoJson EXCEPT !.keys = {"code", "msg", "data"}, !.code = 402,
                              !.msg = "no credits", !.data = "null"]),
      Response(200, FALSE, <<>>, "object",
               [NoJson EXCEPT !.keys = {"data"}, !.data = "d2"]),
      Response(200, FALSE, <<>>, "object",
               [NoJson EXCEPT !.keys = {"code", "data"}, !.code = 503, !.data = "d3"]),
      Response(200, FALSE, <<>>, "object",
               [NoJson EXCEPT !.keys = {"code", "msg"}, !.code = 500, !.msg = "raw"]),
      Response(200, FALSE, <<>>, "array", NoJson),
      Response(200, FALSE, <<>>, "invalid", NoJson),
      Response(204, FALSE, <<>>, "empty", NoJson) }

\* A call's result: a value returned, or an exception raised. oid is the identity
\* of the exception object: the number of the attempt during which it was made.
NoValue == [whole |-> FALSE, body |-> "", json |-> NoJson, data |-> ""]
NoError == [type |-> "None", oid |-> 0]

Return(value) ==
    [raised |-> FALSE, exc |-> "", oid |-> 0, message |-> "", status_code |-> -1,
     retry_after |-> -1, response_body |-> "", original_error |-> NoError,
     value |-> value]

Raise(exc, message, status_code, retry_after, response_body, original_error) ==
    [raised |-> TRUE, exc |-> exc, oid |-> 0, message |-> message,
     status_code |-> status_code, retry_after |-> retry_after,
     response_body |-> response_body, original_error |-> original_error,
     value |-> NoValue]

\* the value None of last_error, and of outcome while request runs
None == [Raise("None", "", -1, -1, "", NoError) EXCEPT !.raised = FALSE]

\* response.json(): fails unless the body is JSON
JsonFails(response) == response.body \in {"empty", "invalid"}

\* a fault: an envelope without code is taken as a success
unwrap_envelope_lenient(body, json) ==
    IF body = "object" /\ "data" \in json.keys
    THEN IF "code" \in json.keys /\ json.code # 200
         THEN Raise("APIError", Get(json, "msg", "API returned error"),
                    Get(json, "code", 500), -1, "object", NoError)
         ELSE Return([whole |-> FALSE, body |-> "", json |-> NoJson, data |-> json.data])
    ELSE Return([whole |-> TRUE, body |-> body, json |-> json, data |-> ""])

\* a fault: code is looked at before the data key
unwrap_envelope_codefirst(body, json) ==
    IF body = "object" /\ ~("code" \in json.keys /\ json.code = 200)
    THEN Raise("APIError", Get(json, "msg", "API returned error"),
               Get(json, "code", 500), -1, "object", NoError)
    ELSE IF body = "object" /\ "data" \in json.keys
    THEN Return([whole |-> FALSE, body |-> "", json |-> NoJson, data |-> json.data])
    ELSE Return([whole |-> TRUE, body |-> body, json |-> json, data |-> ""])

\* lines 50-60: the {code, msg, data} wrapper; json_data.get("code") of an
\* envelope without code is None, which differs from 200
unwrap_envelope(body, json) ==
    IF body = "object" /\ "data" \in json.keys
    THEN IF ~("code" \in json.keys /\ json.code = 200)
         THEN Raise("APIError", Get(json, "msg", "API returned error"),
                    Get(json, "code", 500), -1, "object", NoError)
         ELSE Return([whole |-> FALSE, body |-> "", json |-> NoJson, data |-> json.data])
    ELSE Return([whole |-> TRUE, body |-> body, json |-> json, data |-> ""])

parse_response(response) ==
    IF response.status_code = 429
    THEN IF ~response.hasRetryAfter
         THEN Raise("RateLimitError", "Rate limit exceeded", 429, 60, "", NoError)
         ELSE IF IsIntText(response.retryAfter)
         THEN Raise("RateLimitError", "Rate limit exceeded", 429,
                    IntOfText(response.retryAfter), "", NoError)
         ELSE Raise("ValueError", "invalid literal for int()", -1, -1, "", NoError)
    ELSE IF response.status_code >= 400
    THEN IF response.body = "empty"
         THEN Raise("APIError", "HTTP <status_code>", response.status_code, -1,
                    "{}", NoError)
         ELSE IF response.body = "invalid"
         THEN Raise("JSONDecodeError", "", -1, -1, "", NoError)
         ELSE IF response.body = "array"
         THEN Raise("AttributeError", "", -1, -1, "", NoError)
         ELSE Raise("APIError",
                    Get(response.json, "error", "HTTP <status_code>"),
                    response.status_code, -1, "object", NoError)
    ELSE IF JsonFails(response)
    THEN Raise("JSONDecodeError", "", -1, -1, "", NoError)
    ELSE unwrap_envelope(response.body, response.json)

(***************************************************************************)
(* The transport: HTTPClient.request and AsyncHTTPClient.request.          *)
(***************************************************************************)
\* what one client.request(method, path, **kwargs) call can do
TransportOutcomes ==
    {[kind |-> k, response |-> Response(0, FALSE, <<>>, "empty", NoJson)] :
        k \in {"TimeoutException", "httpx.NetworkError", "Exception", "BaseException"}}
    \cup {[kind |-> "response", response |-> r] : r \in Responses}

\* self._client is None: 0; the pool made by this request: 1
get_client(client) == IF client = 0 THEN 1 ELSE client

\* lines 138-139 (251-252): the try body of attempt number n (1-based)
try_body(o, n) ==
    LET r == IF o.kind = "response" THEN parse_response(o.response)
             ELSE Raise(o.kind, "", -1, -1, "", NoError)
    IN  IF r.raised THEN [r EXCEPT !.oid = n] ELSE r

NetworkError(message, e) ==
    Raise("NetworkError", message, -1, -1, "", [type |-> e.exc, oid |-> e.oid])

\* a fault: one iteration too many
HTTPClient_in_range_inclusive(att, maxr) == att <= maxr

\* a fault: the first attempt is made whatever max_retries is
HTTPClient_in_range_atleastonce(att, maxr) == att < maxr \/ att = 0

\* line 136: for attempt in range(self.max_retries)
HTTPClient_in_range(att, maxr) == att < maxr

\* a fault: a timeout or a connection error ends the loop
HTTPClient_except_noretry(e) ==
    IF e.exc \in {"RateLimitError", "APIError", "BaseException"}
    THEN [do |-> "raise", error |-> e]
    ELSE [do |-> "break", error |-> e]

\* a fault: an unexpected exception is retried like a transport failure
HTTPClient_except_retryall(e) ==
    IF e.exc = "TimeoutException"
    THEN [do |-> "retry", error |-> [NetworkError("Request timeout", e) EXCEPT !.oid = e.oid]]
    ELSE IF e.exc = "httpx.NetworkError"
    THEN [do |-> "retry", error |-> [NetworkError("Network error", e) EXCEPT !.oid = e.oid]]
    ELSE IF e.exc \in {"RateLimitError", "APIError", "BaseException"}
    THEN [do |-> "raise", error |-> e]
    ELSE [do |-> "retry", error |-> e]

\* lines 141-155: the except clauses of HTTPClient.request
HTTPClient_except(e) ==
    IF e.exc = "TimeoutException"
    THEN [do |-> "retry", error |-> [NetworkError("Request timeout", e) EXCEPT !.oid = e.oid]]
    ELSE IF e.exc = "httpx.NetworkError"
    THEN [do |-> "retry", error |-> [NetworkError("Network error", e) EXCEPT !.oid = e.oid]]
    ELSE IF e.exc \in {"RateLimitError", "APIError"}
    THEN [do |-> "raise", error |-> e]
    ELSE IF e.exc = "BaseException"
    THEN [do |-> "raise", error |-> e]
    ELSE [do |-> "break", error |-> e]

\* a fault: a sleep follows the last attempt too
HTTPClient_backoff_always(att, maxr) == att < maxr

\* lines 158-162: whether a sleep follows the failed attempt, and its seconds
HTTPClient_backoff(att, maxr) == att < maxr - 1
HTTPClient_wait_time(att) == 2 ^ att

\* a fault: the last error is always wrapped anew, with the attempt count
HTTPClient_fail_rewrap(err) ==
    NetworkError("Request failed after <max_retries> attempts", err)

\* lines 164-167: after the loop
HTTPClient_fail(err) ==
    IF err.exc = "NetworkError" THEN err
    ELSE NetworkError("Request failed after <max_retries> attempts", err)

\* line 249: for attempt in range(self.max_retries)
AsyncHTTPClient_in_range(att, maxr) == att < maxr

\* lines 254-268: the except clauses of AsyncHTTPClient.request
AsyncHTTPClient_except(e) ==
    IF e.exc = "TimeoutException"
    THEN [do |-> "retry", error |-> [NetworkError("Request timeout", e) EXCEPT !.oid = e.oid]]
    ELSE IF e.exc = "httpx.NetworkError"
    THEN [do |-> "retry", error |-> [NetworkError("Network error", e) EXCEPT !.oid = e.oid]]
    ELSE IF e.exc \in {"RateLimitError", "APIError"}
    THEN [do |-> "raise", error |-> e]
    ELSE IF e.exc = "BaseException"
    THEN [do |-> "raise", error |-> e]
    ELSE [do |-> "break", error |-> e]

\* lines 271-274
AsyncHTTPClient_backoff(att, maxr) == att < maxr - 1
AsyncHTTPClient_wait_time(att) == 2 ^ att

\* lines 276-279
AsyncHTTPClient_fail(err) ==
    IF err.exc = "NetworkError" THEN err
    ELSE NetworkError("Request failed after <max_retries> attempts", err)

(***************************************************************************)
(* Request parameters: SearchRequest (serpshot/models.py) and              *)
(* _build_search_request_params (serpshot/_base.py). A location string is  *)
(* the sequence of its characters; a query string is a token of known      *)
(* length.                                                                 *)
(***************************************************************************)
LocationChars == {"u", "s", "U", "S", "z"}

\* str.upper, character by character
Upper ==
    ("u" :> "U") @@ ("s" :> "S") @@ ("z" :> "Z") @@ ("a" :> "A") @@
    ("U" :> "U") @@ ("S" :> "S") @@ ("Z" :> "Z") @@ ("A" :> "A")

UpperStr(s) == [i \in 1..Len(s) |-> Upper[s[i]]]

\* the values of the enumeration LocationType
LocationType ==
    {<<"U", "S">>, <<"I", "N">>, <<"J", "P">>, <<"B", "R">>, <<"G", "B">>, <<"D", "E">>,
     <<"C", "A">>, <<"F", "R">>, <<"I", "D">>, <<"M", "X">>, <<"S", "G">>, <<"I", "R">>}

\* a location argument: None, a string, or a member of LocationType
NoLocation == [kind |-> "none", value |-> <<>>]

Locations ==
    {NoLocation}
    \cup {[kind |-> "str", value |-> v] :
            v \in SeqsUpTo(LocationChars, 2) \cup {<<"u", "s", "a">>}}
    \cup {[kind |-> "enum", value |-> v] : v \in {<<"U", "S">>, <<"G", "B">>}}

\* a fault: a string that is no known code is kept as typed
validate_location_asis(v) ==
    IF v.kind \in {"none", "enum"} THEN v
    ELSE IF UpperStr(v.value) \in LocationType
    THEN [kind |-> "enum", value |-> UpperStr(v.value)]
    ELSE [kind |-> "str", value |-> v.value]

validate_location(v) ==
    IF v.kind = "none" THEN v
    ELSE IF v.kind = "enum" THEN v
    ELSE IF UpperStr(v.value) \in LocationType
    THEN [kind |-> "enum", value |-> UpperStr(v.value)]
    ELSE [kind |-> "str", value |-> UpperStr(v.value)]

\* len(query) of the query strings of the model
QueryLength ==
    ("" :> 0) @@ ("qa" :> 2) @@ ("qb" :> 2) @@ ("q2048" :> 2048) @@ ("q2049" :> 2049)

\* TRUE when validate_queries returns, FALSE when it raises ValueError
validate_queries(v) ==
    /\ v # <<>>
    /\ \A i \in 1..Len(v) : ~(QueryLength[v[i]] = 0 \/ QueryLength[v[i]] > 2048)

\* TRUE when SearchRequest(...) validates: the Field constraints and validate_queries
SearchRequestValid(queries, num, page) ==
    /\ Len(queries) >= 1 /\ Len(queries) <= 100
    /\ validate_queries(queries)
    /\ num >= 1 /\ num <= 100
    /\ page >= 1

NoRequestParams ==
    [keys |-> {}, queries |-> <<>>, type |-> "", num |-> 0, page |-> 0, gl |-> "",
     hl |-> "", lr |-> "", location |-> <<>>]

BuildReturned(params) == [raised |-> FALSE, exc |-> "", params |-> params]
BuildRaised(e) == [raised |-> TRUE, exc |-> e, params |-> NoRequestParams]

\* model_dump(exclude_none=True) leaves a None location out; an enum member is
\* replaced by its value. The error of SearchRequest(...) is pydantic's.
build_search_request_params(query, search_type, num, page, location) ==
    LET queries == IF query.isStr THEN <<query.qs[1]>> ELSE query.qs
        loc == validate_location(location)
    IN  IF ~SearchRequestValid(queries, num, page)
        THEN BuildRaised("pydantic.ValidationError")
        ELSE BuildReturned(
                 [keys |-> {"queries", "type", "num", "page", "gl", "hl", "lr"}
                           \cup (IF loc.kind = "none" THEN {} ELSE {"location"}),
                  queries |-> queries, type |-> search_type, num |-> num,
                  page |-> page, gl |-> "us", hl |-> "en", lr |-> "en",
                  location |-> loc.value])

\* the arguments drawn: query strings of 0, 2, 2048 and 2049 characters, lists of
\* 0..MaxBatch, of 100 and of 101 queries, num and page at and beyond their limits
BuildQueryStrings == {"", "qa", "qb", "q2048", "q2049"}

BuildQueries ==
    {[isStr |-> TRUE, qs |-> <<q>>] : q \in BuildQueryStrings}
    \cup {[isStr |-> FALSE, qs |-> v] :
            v \in SeqsUpTo(BuildQueryStrings, MaxBatch)
                  \cup {[i \in 1..100 |-> "qa"], [i \in 1..101 |-> "qa"]}}

BuildArgs ==
    [query : BuildQueries, search_type : {"search", "image"}, num : {0, 1, 100, 101},
     page : {0, 1, 2}, location : Locations]

(***************************************************************************)
(* The clients: construction (serpshot/_base.py, _auth.py, client.py,      *)
(* async_client.py) and the connection pool of the transport               *)
(* (serpshot/_http.py). An API key is a token; "  " is a blank key.        *)
(***************************************************************************)
KeyStrings == {"", "  ", "key-arg", "key-env"}

\* str.strip on the keys of the model
Strip == ("" :> "") @@ ("  " :> "") @@ ("key-arg" :> "key-arg") @@ ("key-env" :> "key-env")

\* an optional string: None, or a string
NoKey == [kind |-> "none", value |-> ""]
StrKey(k) == [kind |-> "str", value |-> k]
OptionalKeys == {NoKey} \cup {StrKey(k) : k \in KeyStrings}

\* the truth value of an optional string
Truthy(k) == k.kind = "str" /\ k.value # ""

InitReturned(key) == [raised |-> FALSE, exc |-> "", message |-> "", key |-> key]
InitRaised(e, message) == [raised |-> TRUE, exc |-> e, message |-> message, key |-> ""]

\* env_key is what os.getenv(ENV_API_KEY) gives
get_api_key(api_key, env_key) ==
    IF Truthy(api_key) THEN InitReturned(api_key.value)
    ELSE IF Truthy(env_key) THEN InitReturned(env_key.value)
    ELSE InitRaised("ValueError", "API key is required")

AuthHandler(api_key) ==
    IF api_key = "" \/ Strip[api_key] = ""
    THEN InitRaised("AuthenticationError", "API key is required")
    ELSE InitReturned(Strip[api_key])

BaseClient_init(api_key, env_key) ==
    LET resolved_api_key == get_api_key(api_key, env_key)
    IN  IF resolved_api_key.raised THEN resolved_api_key
        ELSE AuthHandler(resolved_api_key.key)

\* def __init__(self, api_key: str, ...): a call without api_key is a TypeError
SerpShot_init(given, api_key, env_key) ==
    IF ~given
    THEN InitRaised("TypeError", "missing 1 required positional argument: 'api_key'")
    ELSE BaseClient_init(api_key, env_key)

\* def __init__(self, api_key: str | None = None, ...)
AsyncSerpShot_init(given, api_key, env_key) ==
    BaseClient_init(IF given THEN api_key ELSE NoKey, env_key)

\* the arguments of a constructor call: api_key given or not, and the environment
CtorArgs ==
    {a \in [given : BOOLEAN, api_key : OptionalKeys, env_key : OptionalKeys] :
        ~a.given => a.api_key = NoKey}
NoCtorArgs == [given |-> FALSE, api_key |-> NoKey, env_key |-> NoKey]

\* httpx.Client(...): one more pool, open
NewPool(ps) == Append(ps, [open |-> TRUE])

\* a fault: close leaves self._client set
HTTPClient_close_keep(client, ps) ==
    IF client # 0
    THEN [client |-> client, pools |-> [ps EXCEPT ![client].open = FALSE]]
    ELSE [client |-> client, pools |-> ps]

\* __enter__: self._client = httpx.Client(...), whatever self._client was
HTTPClient_enter(client, ps) ==
    [client |-> Len(ps) + 1, pools |-> NewPool(ps)]

\* __exit__: if self._client: self._client.close(); self._client = None
HTTPClient_exit(client, ps) ==
    IF client # 0
    THEN [client |-> 0, pools |-> [ps EXCEPT ![client].open = FALSE]]
    ELSE [client |-> client, pools |-> ps]

HTTPClient_close(client, ps) ==
    IF client # 0
    THEN [client |-> 0, pools |-> [ps EXCEPT ![client].open = FALSE]]
    ELSE [client |-> client, pools |-> ps]

\* _get_client with the pools at hand
HTTPClient_get_client(client, ps) ==
    IF client = 0
    THEN [client |-> Len(ps) + 1, pools |-> NewPool(ps)]
    ELSE [client |-> client, pools |-> ps]

AsyncHTTPClient_aenter(client, ps) ==
    [client |-> Len(ps) + 1, pools |-> NewPool(ps)]

AsyncHTTPClient_aexit(client, ps) ==
    IF client # 0
    THEN [client |-> 0, pools |-> [ps EXCEPT ![client].open = FALSE]]
    ELSE [client |-> client, pools |-> ps]

AsyncHTTPClient_close(client, ps) ==
    IF client # 0
    THEN [client |-> 0, pools |-> [ps EXCEPT ![client].open = FALSE]]
    ELSE [client |-> client, pools |-> ps]

AsyncHTTPClient_get_client(client, ps) ==
    IF client = 0
    THEN [client |-> Len(ps) + 1, pools |-> NewPool(ps)]
    ELSE [client |-> client, pools |-> ps]

\* the arguments of search and image_search: kw holds the keywords passed
SearchCalls ==
    {[query |-> q, kw |-> {}, num |-> 0, page |-> 0] :
        q \in {[isStr |-> TRUE, qs |-> <<"qa">>], [isStr |-> FALSE, qs |-> <<"qb", "qa">>],
               [isStr |-> TRUE, qs |-> <<"">>], [isStr |-> FALSE, qs |-> <<>>],
               [isStr |-> FALSE, qs |-> <<"qa", "q2049">>],
               [isStr |-> FALSE, qs |-> [i \in 1..101 |-> "qa"]]}}
    \cup {[query |-> [isStr |-> FALSE, qs |-> <<"qa", "qb">>], kw |-> {"num", "page"},
           num |-> n, page |-> 2] : n \in {0, 100, 101}}
    \cup {[query |-> [isStr |-> TRUE, qs |-> <<"qb">>], kw |-> {"page"},
           num |-> 0, page |-> 0]}

NoCall == [query |-> [isStr |-> FALSE, qs |-> <<>>], kw |-> {}, num |-> 0, page |-> 0]

\* a keyword argument, or its default in the signature of search
Kw(call, name, default) == IF name \in call.kw THEN call[name] ELSE default

\* what self._http.request gives the client: the parsed data, or an SDK error
TransportReturned(data) == [raised |-> FALSE, exc |-> "", data |-> data]
TransportRaised(e) ==
    [raised |-> TRUE, exc |-> e, data |-> [isList |-> FALSE, items |-> <<ItemNone>>]]

TransportAnswers ==
    {TransportReturned([isList |-> TRUE, items |-> <<ItemOrganic, ItemNoEcho>>]),
     TransportReturned([isList |-> FALSE, items |-> <<ItemNone>>]),
     TransportRaised("NetworkError")}

\* a fault: one request per query
search_requests_fanout(params, pool) ==
    [i \in 1..Len(params.queries) |->
        [method |-> "POST", path |-> "/api/search/google",
         json |-> [params EXCEPT !.queries = <<params.queries[i]>>], pool |-> pool]]

\* self._http.request("POST", "/api/search/google", json=params)
search_requests(params, pool) ==
    <<[method |-> "POST", path |-> "/api/search/google", json |-> params, pool |-> pool]>>

\* the record of a call on the client
CallRecord(op, ctor, call, raised, exc, message, requests, opened, out) ==
    [op |-> op, ctor |-> ctor, call |-> call, raised |-> raised, exc |-> exc,
     message |-> message, requests |-> requests, opened |-> opened, out |-> out]

(***************************************************************************)
(* AuthHandler (serpshot/_auth.py), with the key as the sequence of its    *)
(* characters: a space, or a character that is no whitespace.              *)
(***************************************************************************)
KeyChars == {" ", "k"}

RECURSIVE lstrip(_)
lstrip(s) == IF s # <<>> /\ Head(s) = " " THEN lstrip(Tail(s)) ELSE s

RECURSIVE rstrip(_)
rstrip(s) ==
    IF s # <<>> /\ s[Len(s)] = " " THEN rstrip(SubSeq(s, 1, Len(s) - 1)) ELSE s

\* str.strip
strip(s) == rstrip(lstrip(s))

\* the api_key argument: None, or a string
NoText == [kind |-> "none", value |-> <<>>]
AuthArgs == {NoText} \cup {[kind |-> "str", value |-> v] : v \in SeqsUpTo(KeyChars, MaxKeyLen)}

AuthReturned(key) == [raised |-> FALSE, exc |-> "", message |-> "", key |-> key]
AuthRaised(message) ==
    [raised |-> TRUE, exc |-> "AuthenticationError", message |-> message, key |-> <<>>]

\* lines 18-20
AuthHandler_init(api_key) ==
    IF api_key.kind = "none" \/ api_key.value = <<>> \/ strip(api_key.value) = <<>>
    THEN AuthRaised("API key is required")
    ELSE AuthReturned(strip(api_key.value))

\* a fault: a key of 10 characters is turned down
AuthHandler_validate_inclusive(key) ==
    IF key = <<>> \/ Len(key) <= 10
    THEN AuthRaised("API key appears to be invalid")
    ELSE AuthReturned(key)

\* lines 40-41
AuthHandler_validate(key) ==
    IF key = <<>> \/ Len(key) < 10
    THEN AuthRaised("API key appears to be invalid")
    ELSE AuthReturned(key)

(***************************************************************************)
(* The normalizer as a state machine: one call of                          *)
(* _process_search_response on an arbitrary payload and query.             *)
(***************************************************************************)
NoProcessOut == [raised |-> FALSE, exc |-> "", isList |-> FALSE, responses |-> <<>>]

NormInit ==
    /\ n_pc = "ready"
    /\ n_data \in Payloads
    /\ n_query \in Queries
    /\ n_out = NoProcessOut

NormIdle ==
    /\ n_pc = "off"
    /\ n_data = [isList |-> TRUE, items |-> <<>>]
    /\ n_query = [isStr |-> FALSE, qs |-> <<>>]
    /\ n_out = NoProcessOut

ProcessSearchResponse ==
    /\ n_pc = "ready"
    /\ n_out' = process_search_response(n_data, n_query)
    /\ n_pc' = "done"
    /\ UNCHANGED <<n_data, n_query>>
    /\ UNCHANGED <<req_vars, build_vars, cli_vars, auth_vars, conc_vars>>

(***************************************************************************)
(* The transport as a state machine: one call of request.                  *)
(***************************************************************************)
ReqInit ==
    /\ mode \in {"sync", "async"}
    /\ max_retries \in -1..MaxRetriesBound
    /\ h_client \in {0, 1}
    /\ r_pc = "idle"
    /\ attempt = 0
    /\ last_error = None
    /\ log = <<>>
    /\ waits = <<>>
    /\ outcome = None

ReqIdle ==
    /\ mode = "sync"
    /\ max_retries = 0
    /\ h_client = 0
    /\ r_pc = "off"
    /\ attempt = 0
    /\ last_error = None
    /\ log = <<>>
    /\ waits = <<>>
    /\ outcome = None

\* lines 133-134: client = self._get_client(); last_error = None
HTTPClient_request ==
    /\ mode = "sync" /\ r_pc = "idle"
    /\ h_client' = get_client(h_client)
    /\ last_error' = None
    /\ attempt' = 0
    /\ r_pc' = "loop"
    /\ UNCHANGED <<mode, max_retries, log, waits, outcome>>
    /\ UNCHANGED <<norm_vars, build_vars, cli_vars, auth_vars, conc_vars>>

\* lines 136-155: one iteration's try statement
HTTPClient_attempt ==
    /\ mode = "sync" /\ r_pc = "loop" /\ HTTPClient_in_range(attempt, max_retries)
    /\ \E o \in TransportOutcomes :
        LET r == try_body(o, attempt + 1)
            h == HTTPClient_except(r)
        IN  /\ log' = Append(log, o)
            /\ IF ~r.raised
               THEN outcome' = r /\ r_pc' = "done" /\ UNCHANGED last_error
               ELSE IF h.do = "raise"
               THEN outcome' = h.error /\ r_pc' = "done" /\ UNCHANGED last_error
               ELSE IF h.do = "break"
               THEN last_error' = h.error /\ r_pc' = "after_loop" /\ UNCHANGED outcome
               ELSE last_error' = h.error /\ r_pc' = "backoff" /\ UNCHANGED outcome
    /\ UNCHANGED <<mode, max_retries, h_client, attempt, waits>>
    /\ UNCHANGED <<norm_vars, build_vars, cli_vars, auth_vars, conc_vars>>

\* lines 157-162: the backoff sleep, then the next iteration
HTTPClient_sleep ==
    /\ mode = "sync" /\ r_pc = "backoff"
    /\ waits' = IF HTTPClient_backoff(attempt, max_retries)
                THEN Append(waits, [seconds |-> HTTPClient_wait_time(attempt),
                                    after |-> Len(log)])
                ELSE waits
    /\ attempt' = attempt + 1
    /\ r_pc' = "loop"
    /\ UNCHANGED <<mode, max_retries, h_client, last_error, log, outcome>>
    /\ UNCHANGED <<norm_vars, build_vars, cli_vars, auth_vars, conc_vars>>

\* a fault: with the range used up the loop is entered again
HTTPClient_exhausted_again ==
    /\ mode = "sync" /\ r_pc = "loop" /\ ~HTTPClient_in_range(attempt, max_retries)
    /\ r_pc' = "loop"
    /\ UNCHANGED <<mode, max_retries, h_client, attempt, last_error, log, waits, outcome>>
    /\ UNCHANGED <<norm_vars, build_vars, cli_vars, auth_vars, conc_vars>>

\* line 136: range(self.max_retries) is used up
HTTPClient_exhausted ==
    /\ mode = "sync" /\ r_pc = "loop" /\ ~HTTPClient_in_range(attempt, max_retries)
    /\ r_pc' = "after_loop"
    /\ UNCHANGED <<mode, max_retries, h_client, attempt, last_error, log, waits, outcome>>
    /\ UNCHANGED <<norm_vars, build_vars, cli_vars, auth_vars, conc_vars>>

\* lines 164-167
HTTPClient_raise ==
    /\ mode = "sync" /\ r_pc = "after_loop"
    /\ outcome' = HTTPClient_fail(last_error)
    /\ r_pc' = "done"
    /\ UNCHANGED <<mode, max_retries, h_client, attempt, last_error, log, waits>>
    /\ UNCHANGED <<norm_vars, build_vars, cli_vars, auth_vars, conc_vars>>

\* lines 246-247
AsyncHTTPClient_request ==
    /\ mode = "async" /\ r_pc = "idle"
    /\ h_client' = get_client(h_client)
    /\ last_error' = None
    /\ attempt' = 0
    /\ r_pc' = "loop"
    /\ UNCHANGED <<mode, max_retries, log, waits, outcome>>
    /\ UNCHANGED <<norm_vars, build_vars, cli_vars, auth_vars, conc_vars>>

\* lines 249-268
AsyncHTTPClient_attempt ==
    /\ mode = "async" /\ r_pc = "loop" /\ AsyncHTTPClient_in_range(attempt, max_retries)
    /\ \E o \in TransportOutcomes :
        LET r == try_body(o, attempt + 1)
            h == AsyncHTTPClient_except(r)
        IN  /\ log' = Append(log, o)
            /\ IF ~r.raised
               THEN outcome' = r /\ r_pc' = "done" /\ UNCHANGED last_error
               ELSE IF h.do = "raise"
               THEN outcome' = h.error /\ r_pc' = "done" /\ UNCHANGED last_error
               ELSE IF h.do = "break"
               THEN last_error' = h.error /\ r_pc' = "after_loop" /\ UNCHANGED outcome
               ELSE last_error' = h.error /\ r_pc' = "backoff" /\ UNCHANGED outcome
    /\ UNCHANGED <<mode, max_retries, h_client, attempt, waits>>
    /\ UNCHANGED <<norm_vars, build_vars, cli_vars, auth_vars, conc_vars>>

\* lines 270-274
AsyncHTTPClient_sleep ==
    /\ mode = "async" /\ r_pc = "backoff"
    /\ waits' = IF AsyncHTTPClient_backoff(attempt, max_retries)
                THEN Append(waits, [seconds |-> AsyncHTTPClient_wait_time(attempt),
                                    after |-> Len(log)])
                ELSE waits
    /\ attempt' = attempt + 1
    /\ r_pc' = "loop"
    /\ UNCHANGED <<mode, max_retries, h_client, last_error, log, outcome>>
    /\ UNCHANGED <<norm_vars, build_vars, cli_vars, auth_vars, conc_vars>>

\* line 249
AsyncHTTPClient_exhausted ==
    /\ mode = "async" /\ r_pc = "loop" /\ ~AsyncHTTPClient_in_range(attempt, max_retries)
    /\ r_pc' = "after_loop"
    /\ UNCHANGED <<mode, max_retries, h_client, attempt, last_error, log, waits, outcome>>
    /\ UNCHANGED <<norm_vars, build_vars, cli_vars, auth_vars, conc_vars>>

\* lines 276-279
AsyncHTTPClient_raise ==
    /\ mode = "async" /\ r_pc = "after_loop"
    /\ outcome' = AsyncHTTPClient_fail(last_error)
    /\ r_pc' = "done"
    /\ UNCHANGED <<mode, max_retries, h_client, attempt, last_error, log, waits>>
    /\ UNCHANGED <<norm_vars, build_vars, cli_vars, auth_vars, conc_vars>>

(***************************************************************************)
(* Building the parameters as a state machine: one call of                 *)
(* _build_search_request_params.                                           *)
(***************************************************************************)
NoBuildOut == BuildReturned(NoRequestParams)

BuildInit ==
    /\ b_pc = "ready"
    /\ b_args \in BuildArgs
    /\ b_out = NoBuildOut

BuildIdle ==
    /\ b_pc = "off"
    /\ b_args = [query |-> [isStr |-> FALSE, qs |-> <<>>], search_type |-> "search",
                 num |-> 1, page |-> 1, location |-> NoLocation]
    /\ b_out = NoBuildOut

BuildSearchRequestParams ==
    /\ b_pc = "ready"
    /\ b_out' = build_search_request_params(b_args.query, b_args.search_type, b_args.num,
                                            b_args.page, b_args.location)
    /\ b_pc' = "done"
    /\ UNCHANGED b_args
    /\ UNCHANGED <<norm_vars, req_vars, cli_vars, auth_vars, conc_vars>>

(***************************************************************************)
(* A client as a state machine: it is constructed, and then entered,       *)
(* searched, closed and exited in any order, one call after the other.     *)
(* A search is one call of self._http.request, whose retries are the       *)
(* transport's; here it answers with parsed data or with an SDK error.     *)
(***************************************************************************)
req_rest == <<max_retries, r_pc, attempt, last_error, log, waits, outcome>>

NoCallRecord ==
    CallRecord("none", NoCtorArgs, NoCall, FALSE, "", "", <<>>, {}, NoProcessOut)

ClientInit ==
    /\ c_pc = "new"
    /\ c_key = ""
    /\ pools = <<>>
    /\ c_ops = 0
    /\ c_last = NoCallRecord

ClientIdle ==
    /\ c_pc = "off"
    /\ c_key = ""
    /\ pools = <<>>
    /\ c_ops = 0
    /\ c_last = NoCallRecord

\* a constructor call of class m with arguments a and result r
Construct(m, a, r) ==
    /\ c_pc' = IF r.raised THEN "failed" ELSE "ready"
    /\ c_key' = r.key
    /\ mode' = m
    /\ h_client' = 0
    /\ c_last' = CallRecord("init", a, NoCall, r.raised, r.exc, r.message, <<>>, {},
                            NoProcessOut)
    /\ UNCHANGED <<pools, c_ops>>
    /\ UNCHANGED <<req_rest, norm_vars, build_vars, auth_vars, conc_vars>>

SerpShot_new ==
    /\ c_pc = "new"
    /\ \E a \in CtorArgs : Construct("sync", a, SerpShot_init(a.given, a.api_key, a.env_key))

AsyncSerpShot_new ==
    /\ c_pc = "new"
    /\ \E a \in CtorArgs :
         Construct("async", a, AsyncSerpShot_init(a.given, a.api_key, a.env_key))

\* a call op on the pool that moves self._client and the pools to r
PoolCall(op, r) ==
    /\ h_client' = r.client
    /\ pools' = r.pools
    /\ c_last' = CallRecord(op, NoCtorArgs, NoCall, FALSE, "", "", <<>>,
                            {p \in 1..Len(r.pools) : p > Len(pools)}, NoProcessOut)
    /\ c_ops' = c_ops + 1
    /\ UNCHANGED <<c_pc, c_key, mode>>
    /\ UNCHANGED <<req_rest, norm_vars, build_vars, auth_vars, conc_vars>>

CanCall(m) == c_pc = "ready" /\ mode = m /\ c_ops < MaxOps

SerpShot_enter == CanCall("sync") /\ PoolCall("enter", HTTPClient_enter(h_client, pools))
SerpShot_exit == CanCall("sync") /\ PoolCall("exit", HTTPClient_exit(h_client, pools))
SerpShot_close == CanCall("sync") /\ PoolCall("close", HTTPClient_close(h_client, pools))

AsyncSerpShot_aenter ==
    CanCall("async") /\ PoolCall("enter", AsyncHTTPClient_aenter(h_client, pools))
AsyncSerpShot_aexit ==
    CanCall("async") /\ PoolCall("exit", AsyncHTTPClient_aexit(h_client, pools))
AsyncSerpShot_close ==
    CanCall("async") /\ PoolCall("close", AsyncHTTPClient_close(h_client, pools))

\* search and image_search: the parameters are built; if that raises nothing else
\* happens; else request is called on the pool of _get_client, and what it returns
\* goes through _process_search_response
Search(op, search_type, g) ==
    /\ \E call \in SearchCalls, answer \in TransportAnswers :
         LET b == build_search_request_params(call.query, search_type,
                                              Kw(call, "num", 10), Kw(call, "page", 1),
                                              NoLocation)
             reqs == search_requests(b.params, g.client)
             opened == {p \in 1..Len(g.pools) : p > Len(pools)}
             out == process_search_response(answer.data, call.query)
         IN  IF b.raised
             THEN /\ c_last' = CallRecord(op, NoCtorArgs, call, TRUE, b.exc, "", <<>>, {},
                                          NoProcessOut)
                  /\ UNCHANGED <<h_client, pools>>
             ELSE /\ h_client' = g.client
                  /\ pools' = g.pools
                  /\ c_last' = IF answer.raised
                               THEN CallRecord(op, NoCtorArgs, call, TRUE, answer.exc, "",
                                               reqs, opened, NoProcessOut)
                               ELSE CallRecord(op, NoCtorArgs, call, out.raised, out.exc,
                                               "", reqs, opened, out)
    /\ c_ops' = c_ops + 1
    /\ UNCHANGED <<c_pc, c_key, mode>>
    /\ UNCHANGED <<req_rest, norm_vars, build_vars, auth_vars, conc_vars>>

SerpShot_search ==
    CanCall("sync") /\ Search("search", "search", HTTPClient_get_client(h_client, pools))
SerpShot_image_search ==
    CanCall("sync") /\ Search("image_search", "image", HTTPClient_get_client(h_client, pools))
AsyncSerpShot_search ==
    CanCall("async")
    /\ Search("search", "search", AsyncHTTPClient_get_client(h_client, pools))
AsyncSerpShot_image_search ==
    CanCall("async")
    /\ Search("image_search", "image", AsyncHTTPClient_get_client(h_client, pools))

(***************************************************************************)
(* An AuthHandler as a state machine: it is constructed, then validated.   *)
(***************************************************************************)
NoAuthOut == AuthReturned(<<>>)

AuthInit ==
    /\ a_pc = "new"
    /\ a_arg \in AuthArgs
    /\ a_key = <<>>
    /\ a_out = NoAuthOut

AuthIdle ==
    /\ a_pc = "off"
    /\ a_arg = NoText
    /\ a_key = <<>>
    /\ a_out = NoAuthOut

AuthHandler_new ==
    /\ a_pc = "new"
    /\ a_out' = AuthHandler_init(a_arg)
    /\ a_key' = AuthHandler_init(a_arg).key
    /\ a_pc' = IF AuthHandler_init(a_arg).raised THEN "failed" ELSE "ready"
    /\ UNCHANGED a_arg
    /\ UNCHANGED <<norm_vars, req_vars, build_vars, cli_vars, conc_vars>>

AuthHandler_call_validate ==
    /\ a_pc = "ready"
    /\ a_out' = AuthHandler_validate(a_key)
    /\ a_pc' = "validated"
    /\ UNCHANGED <<a_arg, a_key>>
    /\ UNCHANGED <<norm_vars, req_vars, build_vars, cli_vars, conc_vars>>

(***************************************************************************)
(* Callers that share one transport: threads on an HTTPClient, tasks on    *)
(* an AsyncHTTPClient, and one call of close. A thread can be interrupted  *)
(* between any two statements; a task runs from one await to the next. An  *)
(* attempt on a closed pool is refused by httpx with a RuntimeError, which *)
(* ends the request through "except Exception".                            *)
(***************************************************************************)
Callers == {1, 2}

NoSeen == [pools |-> {}, stale |-> FALSE, overlapped |-> FALSE]

\* caller c sends an attempt on pool p, the pools being ps
Sent(c, p, ps) ==
    [t_seen EXCEPT ![c] =
        [pools |-> @.pools \cup {p},
         stale |-> @.stale \/ ~ps[p].open,
         overlapped |-> @.overlapped \/ \E d \in Callers \ {c} : t_pc[d] = "backoff"]]

\* an attempt meets a timeout or a connection error, or gets a response
AttemptOutcomes == {"failure", "response"}

\* a fault: time.sleep in the coroutine, which keeps the event loop
AsyncHTTPClient_sleep_blocks_loop == TRUE

\* line 274: await asyncio.sleep(wait_time) gives the event loop away
AsyncHTTPClient_sleep_blocks == FALSE

\* no other caller keeps the event loop while it sleeps
LoopFree(c) ==
    AsyncHTTPClient_sleep_blocks => \A d \in Callers \ {c} : t_pc[d] # "backoff"

CallersInit ==
    /\ mode \in {"sync", "async"}
    /\ max_retries \in 1..MaxRetriesBound
    /\ h_client = 0
    /\ r_pc = "off" /\ attempt = 0 /\ last_error = None /\ log = <<>> /\ waits = <<>>
    /\ outcome = None
    /\ t_pc = [c \in Callers |-> "idle"]
    /\ t_client = [c \in Callers |-> 0]
    /\ t_attempt = [c \in Callers |-> 0]
    /\ t_seen = [c \in Callers |-> NoSeen]
    /\ closer = "idle"

CallersIdle ==
    /\ t_pc = [c \in Callers |-> "off"]
    /\ t_client = [c \in Callers |-> 0]
    /\ t_attempt = [c \in Callers |-> 0]
    /\ t_seen = [c \in Callers |-> NoSeen]
    /\ closer = "off"

callers_frame ==
    <<mode, req_rest, c_pc, c_key, c_ops, c_last, norm_vars, build_vars,
      auth_vars>>

\* line 104: if self._client is None
Thread_get_client_test(c) ==
    /\ mode = "sync" /\ t_pc[c] = "idle"
    /\ IF h_client = 0
       THEN t_pc' = [t_pc EXCEPT ![c] = "make"] /\ UNCHANGED t_client
       ELSE t_pc' = [t_pc EXCEPT ![c] = "loop"]
            /\ t_client' = [t_client EXCEPT ![c] = h_client]
    /\ UNCHANGED <<h_client, pools, t_attempt, t_seen, closer, callers_frame>>

\* lines 105-110: self._client = httpx.Client(...); return self._client
Thread_get_client_make(c) ==
    /\ mode = "sync" /\ t_pc[c] = "make"
    /\ pools' = NewPool(pools)
    /\ h_client' = Len(pools) + 1
    /\ t_client' = [t_client EXCEPT ![c] = Len(pools) + 1]
    /\ t_pc' = [t_pc EXCEPT ![c] = "loop"]
    /\ UNCHANGED <<t_attempt, t_seen, closer, callers_frame>>

\* where a request goes after an attempt at loop index att
AfterAttempt(open, o, backoff) ==
    IF ~open THEN "done"
    ELSE IF o = "response" THEN "done"
    ELSE IF backoff THEN "backoff"
    ELSE "done"

\* lines 136-155: one attempt of a thread, on its local client
Thread_attempt(c) ==
    /\ mode = "sync" /\ t_pc[c] = "loop"
    /\ \E o \in AttemptOutcomes :
         /\ t_seen' = Sent(c, t_client[c], pools)
         /\ t_pc' = [t_pc EXCEPT ![c] =
                        AfterAttempt(pools[t_client[c]].open, o,
                                     HTTPClient_backoff(t_attempt[c], max_retries))]
    /\ UNCHANGED <<h_client, pools, t_client, t_attempt, closer, callers_frame>>

\* lines 157-162: time.sleep(wait_time), then the next iteration
Thread_sleep(c) ==
    /\ mode = "sync" /\ t_pc[c] = "backoff"
    /\ t_attempt' = [t_attempt EXCEPT ![c] = @ + 1]
    /\ t_pc' = [t_pc EXCEPT ![c] = "loop"]
    /\ UNCHANGED <<h_client, pools, t_client, t_seen, closer, callers_frame>>

\* lines 171-172: if self._client: self._client.close()
Thread_close_begin ==
    /\ mode = "sync" /\ closer = "idle"
    /\ IF h_client # 0
       THEN pools' = [pools EXCEPT ![h_client].open = FALSE] /\ closer' = "closing"
       ELSE UNCHANGED pools /\ closer' = "done"
    /\ UNCHANGED <<h_client, t_pc, t_client, t_attempt, t_seen, callers_frame>>

\* line 173: self._client = None
Thread_close_end ==
    /\ mode = "sync" /\ closer = "closing"
    /\ h_client' = 0
    /\ closer' = "done"
    /\ UNCHANGED <<pools, t_pc, t_client, t_attempt, t_seen, callers_frame>>

\* lines 246-252: client = self._get_client(), and the first attempt is sent
Task_request(c) ==
    /\ mode = "async" /\ t_pc[c] = "idle" /\ LoopFree(c)
    /\ LET g == AsyncHTTPClient_get_client(h_client, pools)
       IN  /\ h_client' = g.client
           /\ pools' = g.pools
           /\ t_client' = [t_client EXCEPT ![c] = g.client]
           /\ t_seen' = Sent(c, g.client, g.pools)
           /\ t_pc' = [t_pc EXCEPT ![c] =
                          IF g.pools[g.client].open THEN "inflight" ELSE "done"]
    /\ UNCHANGED <<t_attempt, closer, callers_frame>>

\* lines 251-274: the awaited attempt ends; on a failure the sleep begins
Task_response(c) ==
    /\ mode = "async" /\ t_pc[c] = "inflight" /\ LoopFree(c)
    /\ \E o \in AttemptOutcomes :
         t_pc' = [t_pc EXCEPT ![c] =
                     AfterAttempt(TRUE, o,
                                  AsyncHTTPClient_backoff(t_attempt[c], max_retries))]
    /\ UNCHANGED <<h_client, pools, t_client, t_attempt, t_seen, closer, callers_frame>>

\* lines 274, 249-251: the sleep ends and the next attempt is sent on the local client
Task_wake(c) ==
    /\ mode = "async" /\ t_pc[c] = "backoff" /\ LoopFree(c)
    /\ t_attempt' = [t_attempt EXCEPT ![c] = @ + 1]
    /\ t_seen' = Sent(c, t_client[c], pools)
    /\ t_pc' = [t_pc EXCEPT ![c] =
                   IF pools[t_client[c]].open THEN "inflight" ELSE "done"]
    /\ UNCHANGED <<h_client, pools, t_client, closer, callers_frame>>

\* lines 283-284: if self._client: await self._client.aclose()
Task_close_begin ==
    /\ mode = "async" /\ closer = "idle" /\ LoopFree(0)
    /\ IF h_client # 0
       THEN pools' = [pools EXCEPT ![h_client].open = FALSE] /\ closer' = "closing"
       ELSE UNCHANGED pools /\ closer' = "done"
    /\ UNCHANGED <<h_client, t_pc, t_client, t_attempt, t_seen, callers_frame>>

\* line 285: self._client = None
Task_close_end ==
    /\ mode = "async" /\ closer = "closing" /\ LoopFree(0)
    /\ h_client' = 0
    /\ closer' = "done"
    /\ UNCHANGED <<pools, t_pc, t_client, t_attempt, t_seen, callers_frame>>

\* the steps of caller c
ThreadStep(c) ==
    \/ Thread_get_client_test(c)
    \/ Thread_get_client_make(c)
    \/ Thread_attempt(c)
    \/ Thread_sleep(c)

TaskStep(c) ==
    \/ Task_request(c)
    \/ Task_response(c)
    \/ Task_wake(c)

(***************************************************************************)
(* Specifications.                                                         *)
(***************************************************************************)
InitNorm == NormInit /\ ReqIdle /\ BuildIdle /\ ClientIdle /\ AuthIdle /\ CallersIdle
NextNorm == ProcessSearchResponse
SpecNorm == InitNorm /\ [][NextNorm]_vars

InitReq == ReqInit /\ NormIdle /\ BuildIdle /\ ClientIdle /\ AuthIdle /\ CallersIdle
NextReq ==
    \/ HTTPClient_request
    \/ HTTPClient_attempt
    \/ HTTPClient_sleep
    \/ HTTPClient_exhausted
    \/ HTTPClient_raise
    \/ AsyncHTTPClient_request
    \/ AsyncHTTPClient_attempt
    \/ AsyncHTTPClient_sleep
    \/ AsyncHTTPClient_exhausted
    \/ AsyncHTTPClient_raise
SpecReq == InitReq /\ [][NextReq]_vars

\* every attempt and every sleep of a running request ends
SpecReqLive == InitReq /\ [][NextReq]_vars /\ WF_vars(NextReq)

InitBuild == BuildInit /\ NormIdle /\ ReqIdle /\ ClientIdle /\ AuthIdle /\ CallersIdle
NextBuild == BuildSearchRequestParams
SpecBuild == InitBuild /\ [][NextBuild]_vars

InitAuth == AuthInit /\ NormIdle /\ ReqIdle /\ BuildIdle /\ ClientIdle /\ CallersIdle
NextAuth ==
    \/ AuthHandler_new
    \/ AuthHandler_call_validate
SpecAuth == InitAuth /\ [][NextAuth]_vars

InitCallers == CallersInit /\ NormIdle /\ BuildIdle /\ ClientIdle /\ AuthIdle
NextCallers ==
    \/ \E c \in Callers : Thread_get_client_test(c)
    \/ \E c \in Callers : Thread_get_client_make(c)
    \/ \E c \in Callers : Thread_attempt(c)
    \/ \E c \in Callers : Thread_sleep(c)
    \/ Thread_close_begin
    \/ Thread_close_end
    \/ \E c \in Callers : Task_request(c)
    \/ \E c \in Callers : Task_response(c)
    \/ \E c \in Callers : Task_wake(c)
    \/ Task_close_begin
    \/ Task_close_end
SpecCallers == InitCallers /\ [][NextCallers]_vars

Init == ClientInit /\ ReqIdle /\ NormIdle /\ BuildIdle /\ AuthIdle /\ CallersIdle
Next ==
    \/ SerpShot_new
    \/ SerpShot_enter
    \/ SerpShot_exit
    \/ SerpShot_close
    \/ SerpShot_search
    \/ SerpShot_image_search
    \/ AsyncSerpShot_new
    \/ AsyncSerpShot_aenter
    \/ AsyncSerpShot_aexit
    \/ AsyncSerpShot_close
    \/ AsyncSerpShot_search
    \/ AsyncSerpShot_image_search
Spec == Init /\ [][Next]_vars

(***************************************************************************)
(* Claims about the normalizer, checked under SpecNorm.                    *)
(***************************************************************************)
\* the backend items of the payload, in order (one item for a payload that is no array)
BackendItems == n_data.items
BackendCount == Len(BackendItems)
QueryCount == Len(n_query.qs)

\* the items that meet a query are objects of the backend's shape (complete or
\* partial), null, or no objects at all: none carries a wrongly typed field
PairedItemsWellFormed ==
    \A i \in 1..Min(BackendCount, QueryCount) : BackendItems[i] \in WellFormedItems

EchoesQuery(item) ==
    item.kind = "dict" /\ "search_params" \in item.keys /\ "q" \in item.search_params.keys

\* the query the i-th response must carry
ResolvedQuery(i) ==
    IF i <= BackendCount /\ EchoesQuery(BackendItems[i])
    THEN BackendItems[i].search_params.q
    ELSE n_query.qs[i]

\* the credits the i-th response must carry
ResolvedCredits(i) ==
    IF i <= BackendCount /\ BackendItems[i].kind = "dict" /\ "credits" \in BackendItems[i].keys
    THEN BackendItems[i].credits
    ELSE 0

EmptyResponseFor(q) ==
    [success |-> TRUE, query |-> q, total_results |-> "0", search_time |-> "0",
     results |-> <<>>, credits_used |-> 0]

PayloadNone == [isList |-> FALSE, items |-> <<ItemNone>>]
PayloadEmptyList == [isList |-> TRUE, items |-> <<>>]

\* C4: _process_search_response(None, x) and _process_search_response([], x) raise
\* nothing and give the same: for a string x one empty response with 0 credits, "0"
\* total results and query x; for a list x one such response per query.
C4_NoneAndEmptyListAgree ==
    (n_pc = "done" /\ n_data \in {PayloadNone, PayloadEmptyList})
    => /\ ~n_out.raised
       /\ n_out.isList = ~n_query.isStr
       /\ n_out.responses = [i \in 1..QueryCount |-> EmptyResponseFor(n_query.qs[i])]
       /\ n_out = process_search_response(PayloadNone, n_query)
       /\ n_out = process_search_response(PayloadEmptyList, n_query)

\* C4 witness: the empty list answered for a list of two queries
C4_Witness ==
    /\ n_pc = "done" /\ n_data = PayloadEmptyList
    /\ ~n_query.isStr /\ QueryCount = 2
    /\ Len(n_out.responses) = 2 /\ n_out.responses[2].credits_used = 0

(***************************************************************************)
(* Claims about the transport, checked under SpecReq. Attempt j is log[j]  *)
(* (1-based): its index in the loop of request is j - 1.                   *)
(***************************************************************************)
Attempts == Len(log)

TransportFailure(o) == o.kind \in {"TimeoutException", "httpx.NetworkError"}

\* a response that request is to hand back: below 400, JSON, no error envelope
SuccessfulResponse(o) ==
    /\ o.kind = "response"
    /\ o.response.status_code < 400
    /\ o.response.body \in {"array", "object"}
    /\ (o.response.body = "object" /\ "data" \in o.response.json.keys)
         => ("code" \in o.response.json.keys /\ o.response.json.code = 200)

\* the data of a successful response: the envelope's data, else the JSON itself
DataOf(o) ==
    IF o.response.body = "object" /\ "data" \in o.response.json.keys
    THEN [whole |-> FALSE, body |-> "", json |-> NoJson, data |-> o.response.json.data]
    ELSE [whole |-> TRUE, body |-> o.response.body, json |-> o.response.json, data |-> ""]

AllTransportFailures == \A i \in 1..Attempts : TransportFailure(log[i])

\* no sleep was made once j attempts had been made
NoWaitAfter(j) == \A w \in 1..Len(waits) : waits[w].after < j

\* C5: while the attempts made so far all failed with a timeout or a connection
\* error and fewer than max_retries were made, request goes on to a further
\* attempt; and when attempt k+1 then gets a successful response, no attempt follows
\* it and request returns that response's data, raising nothing.
C5_SuccessAfterFailuresReturns ==
    /\ (r_pc # "idle" /\ AllTransportFailures /\ Attempts < max_retries)
         => (r_pc \in {"loop", "backoff"} /\ outcome = None)
    /\ \A j \in 1..Attempts :
         (SuccessfulResponse(log[j]) /\ \A i \in 1..(j - 1) : TransportFailure(log[i]))
         => /\ Attempts = j
            /\ r_pc = "done"
            /\ ~outcome.raised
            /\ outcome.exc = ""
            /\ outcome.value = DataOf(log[j])

\* C5 witness: two failures, then the envelope with data "d1", with max_retries = 3
C5_Witness ==
    /\ r_pc = "done" /\ max_retries = 3 /\ Attempts = 3
    /\ log[1].kind = "TimeoutException" /\ log[2].kind = "httpx.NetworkError"
    /\ SuccessfulResponse(log[3])
    /\ ~outcome.raised /\ outcome.value.data = "d1"

\* C6: when every attempt fails with a timeout or a connection error, request
\* raises NetworkError after exactly max_retries attempts (max_retries >= 0), and
\* at no time has it made more than max_retries attempts.
C6_ExhaustionRaisesNetworkError ==
    max_retries >= 0
    => /\ Attempts <= max_retries
       /\ (r_pc = "done" /\ AllTransportFailures)
            => /\ outcome.raised
               /\ outcome.exc = "NetworkError"
               /\ Attempts = max_retries

\* C6 witness: three failed attempts with max_retries = 3
C6_Witness ==
    /\ r_pc = "done" /\ max_retries = 3 /\ Attempts = 3 /\ AllTransportFailures
    /\ outcome.exc = "NetworkError"

\* the backoff schedule: 1s, 2s, 4s, ...
BackoffSeconds == <<1, 2, 4, 8, 16, 32>>

\* C7: the w-th sleep of request follows attempt w (index w - 1), which failed with a
\* timeout or a connection error and is not the last permitted one, and lasts
\* 2^(w-1) seconds; when request ends, every such attempt has been followed by its
\* sleep. So none comes before the first attempt, after the last permitted attempt,
\* or after a successful or terminal attempt.
C7_BackoffSchedule ==
    /\ \A w \in 1..Len(waits) :
         /\ waits[w].after = w
         /\ w <= Attempts
         /\ TransportFailure(log[w])
         /\ w < max_retries
         /\ waits[w].seconds = BackoffSeconds[w]
    /\ r_pc = "done"
         => Len(waits) = Cardinality({j \in 1..Attempts :
                                        TransportFailure(log[j]) /\ j < max_retries})

\* C7 witness: three failed attempts with max_retries = 3: sleeps of 1s and 2s only
C7_Witness ==
    /\ r_pc = "done" /\ max_retries = 3 /\ Attempts = 3 /\ AllTransportFailures
    /\ Len(waits) = 2 /\ waits[1].seconds = 1 /\ waits[2].seconds = 2

\* the seconds a Retry-After header states, for the headers of Responses
HeaderSeconds(h) == IF h = <<"3", "0">> THEN 30 ELSE IF h = <<"7">> THEN 7 ELSE -1

Is429(o) == o.kind = "response" /\ o.response.status_code = 429

\* C8 (as claimed): an attempt that receives HTTP 429 is the last one, no sleep
\* follows it, and request raises RateLimitError whose retry_after is the value of
\* the Retry-After header, or 60 without the header.
C8_RateLimitRaisedAtOnce ==
    (r_pc = "done" /\ Attempts >= 1 /\ Is429(log[Attempts]))
    => /\ outcome.raised
       /\ outcome.exc = "RateLimitError"
       /\ NoWaitAfter(Attempts)
       /\ outcome.retry_after =
            IF log[Attempts].response.hasRetryAfter
            THEN HeaderSeconds(log[Attempts].response.retryAfter)
            ELSE 60

IsHttpError(o) ==
    o.kind = "response" /\ o.response.status_code >= 400 /\ o.response.status_code # 429

\* C9 (as claimed): an attempt that receives a status >= 400 other than 429 is the
\* last one, and request raises APIError with that status code and the parsed
\* body (the empty mapping for an empty body).
C9_HttpErrorRaisesAPIError ==
    (r_pc = "done" /\ Attempts >= 1 /\ IsHttpError(log[Attempts]))
    => /\ outcome.raised
       /\ outcome.exc = "APIError"
       /\ outcome.status_code = log[Attempts].response.status_code
       /\ outcome.response_body =
            IF log[Attempts].response.body = "empty" THEN "{}"
            ELSE log[Attempts].response.body

\* an attempt that ends in an exception that is neither a timeout, a connection
\* error, RateLimitError nor APIError
UnexpectedException(o, n) ==
    /\ try_body(o, n).raised
    /\ try_body(o, n).exc \notin {"TimeoutException", "httpx.NetworkError",
                                  "RateLimitError", "APIError"}

\* C10 (as claimed): after an unexpected exception request raises that very
\* exception.
C10_UnexpectedExceptionRaisedAsIs ==
    (r_pc = "done" /\ Attempts >= 1 /\ UnexpectedException(log[Attempts], Attempts))
    => /\ outcome.raised
       /\ outcome.exc = try_body(log[Attempts], Attempts).exc
       /\ outcome.oid = Attempts

\* C10 (amended): an attempt that ends in an unexpected exception is the last one
\* and no sleep follows it; request then raises NetworkError whose original_error
\* is that exception, unless the exception is no Exception (KeyboardInterrupt,
\* CancelledError), which leaves request as it is.
C10_UnexpectedExceptionWrapped ==
    \A j \in 1..Attempts :
        UnexpectedException(log[j], j)
        => /\ Attempts = j
           /\ NoWaitAfter(j)
           /\ r_pc \in {"after_loop", "done"}
           /\ r_pc = "done"
                => /\ outcome.raised
                   /\ IF log[j].kind = "BaseException"
                      THEN outcome.exc = "BaseException" /\ outcome.oid = j
                      ELSE /\ outcome.exc = "NetworkError"
                           /\ outcome.message = "Request failed after <max_retries> attempts"
                           /\ outcome.original_error.oid = j
                           /\ outcome.original_error.type = try_body(log[j], j).exc

\* C10 witness: a timeout, then an unexpected exception, raised as NetworkError
C10_Witness ==
    /\ r_pc = "done" /\ max_retries = 3 /\ Attempts = 2
    /\ log[1].kind = "TimeoutException" /\ log[2].kind = "Exception"
    /\ Len(waits) = 1
    /\ outcome.exc = "NetworkError" /\ outcome.original_error.type = "Exception"

\* C11 (as claimed): when all max_retries attempts fail with transport failures, the
\* NetworkError raised wraps the failure of the last attempt and its message states
\* the attempt count.
C11_ExhaustionAnnotatedWithCount ==
    (r_pc = "done" /\ Attempts >= 1 /\ AllTransportFailures)
    => /\ outcome.exc = "NetworkError"
       /\ outcome.original_error = [type |-> log[Attempts].kind, oid |-> Attempts]
       /\ outcome.message = "Request failed after <max_retries> attempts"

\* C11 (amended): when all max_retries >= 1 attempts fail with transport failures,
\* the NetworkError raised is the one made for the last attempt: it wraps that
\* attempt's failure, and its message is that failure's ("Request timeout after
\* {timeout}s" or "Network error: ..."), without any attempt count.
C11_ExhaustionRaisesLastError ==
    (r_pc = "done" /\ Attempts >= 1 /\ AllTransportFailures)
    => /\ outcome.raised
       /\ outcome.exc = "NetworkError"
       /\ outcome.original_error = [type |-> log[Attempts].kind, oid |-> Attempts]
       /\ outcome.message = IF log[Attempts].kind = "TimeoutException"
                            THEN "Request timeout" ELSE "Network error"

\* C11 witness: a connection error, then a timeout, with max_retries = 2
C11_Witness ==
    /\ r_pc = "done" /\ max_retries = 2 /\ Attempts = 2
    /\ log[1].kind = "httpx.NetworkError" /\ log[2].kind = "TimeoutException"
    /\ outcome.exc = "NetworkError" /\ outcome.original_error.oid = 2

\* the last attempt got a response below 400 whose JSON is an object with a data key
LastIsEnvelope ==
    /\ r_pc = "done" /\ Attempts >= 1
    /\ log[Attempts].kind = "response"
    /\ log[Attempts].response.status_code < 400
    /\ log[Attempts].response.body = "object"
    /\ "data" \in log[Attempts].response.json.keys

LastJson == log[Attempts].response.json

\* C12 (as claimed): for an envelope with a data key, a code that is present and
\* differs from 200 raises APIError with msg and code; a code of 200 or no code
\* returns data.
C12_EnvelopeWithoutCodeReturnsData ==
    LastIsEnvelope
    => IF "code" \in LastJson.keys /\ LastJson.code # 200
       THEN /\ outcome.exc = "APIError"
            /\ outcome.status_code = LastJson.code
            /\ "msg" \in LastJson.keys => outcome.message = LastJson.msg
       ELSE ~outcome.raised /\ outcome.value.data = LastJson.data

\* C12 (amended): for an envelope with a data key, only a code equal to 200 returns
\* data; a code that differs from 200 or is absent raises APIError with msg as
\* message ("API returned error" without msg) and code as status (500 without code).
C12_EnvelopeUnwrapped ==
    LastIsEnvelope
    => IF "code" \in LastJson.keys /\ LastJson.code = 200
       THEN /\ ~outcome.raised /\ outcome.exc = ""
            /\ ~outcome.value.whole
            /\ outcome.value.data = LastJson.data
       ELSE /\ outcome.raised
            /\ outcome.exc = "APIError"
            /\ outcome.message = IF "msg" \in LastJson.keys THEN LastJson.msg
                                 ELSE "API returned error"
            /\ outcome.status_code = IF "code" \in LastJson.keys THEN LastJson.code
                                     ELSE 500

\* C12 witness: the envelope {data: "d2"} without code ends in APIError with status 500
C12_Witness ==
    /\ LastIsEnvelope /\ "code" \notin LastJson.keys /\ LastJson.data = "d2"
    /\ outcome.exc = "APIError" /\ outcome.status_code = 500

\* the last attempt got a response below 400 whose JSON has no top-level data key
LastIsBareJson ==
    /\ r_pc = "done" /\ Attempts >= 1
    /\ log[Attempts].kind = "response"
    /\ log[Attempts].response.status_code < 400
    /\ log[Attempts].response.body \in {"array", "object"}
    /\ (log[Attempts].response.body = "object" => "data" \notin LastJson.keys)

\* C13: a response below 400 whose JSON has no top-level data key (no object, or an
\* object without data, whatever its code) is returned as it is, and nothing is raised.
C13_BareJsonReturnedUnchanged ==
    LastIsBareJson
    => /\ ~outcome.raised /\ outcome.exc = ""
       /\ outcome.value.whole
       /\ outcome.value.body = log[Attempts].response.body
       /\ outcome.value.json = LastJson

\* C13 witness: the object {code: 500, msg: "raw"} comes back whole
C13_Witness ==
    /\ LastIsBareJson /\ log[Attempts].response.body = "object"
    /\ "code" \in LastJson.keys /\ LastJson.code = 500
    /\ ~outcome.raised /\ outcome.value.json.msg = "raw"

\* the backend item the i-th response is built from is an object
BuiltFromObject(i) ==
    i <= BackendCount /\ i <= Len(n_out.responses) /\ BackendItems[i].kind = "dict"

EchoesImageType(item) ==
    /\ "search_params" \in item.keys
    /\ "type" \in item.search_params.keys
    /\ item.search_params.type = "image"

\* the j-th result of the i-th response is the remapped j-th backend result
Remapped(i, j) ==
    LET raw == BackendItems[i].results[j]
        res == n_out.responses[i].results[j]
    IN  /\ res.shape = "image"
        /\ res.link = (IF "imageUrl" \in raw.keys THEN raw.imageUrl ELSE "")
        /\ res.source_link = (IF "link" \in raw.keys THEN raw.link ELSE "")
        /\ res.thumbnail = (IF "thumbnailUrl" \in raw.keys THEN raw.thumbnailUrl ELSE "")
        /\ res.width = (IF "imageWidth" \in raw.keys THEN raw.imageWidth ELSE 0)
        /\ res.height = (IF "imageHeight" \in raw.keys THEN raw.imageHeight ELSE 0)
        /\ res.title = (IF "title" \in raw.keys THEN raw.title ELSE "")
        /\ res.source = (IF "source" \in raw.keys THEN raw.source ELSE "")
        /\ res.position = (IF "position" \in raw.keys THEN raw.position ELSE 0)

\* the j-th result of the i-th response carries the backend's own fields
NotRemapped(i, j) ==
    LET raw == BackendItems[i].results[j]
        res == n_out.responses[i].results[j]
    IN  /\ res.link = raw.link
        /\ res.title = raw.title
        /\ res.position = raw.position
        /\ res.shape = "organic" => res.snippet = raw.snippet
        /\ res.shape = "image" => /\ res.source_link = raw.source_link
                                  /\ res.thumbnail = raw.thumbnail
                                  /\ res.width = raw.width
                                  /\ res.height = raw.height

\* C20: in every list of responses returned, a response built from a backend item
\* that echoes type "image" has one result per backend result, with link from
\* imageUrl, source_link from link, thumbnail from thumbnailUrl, width from
\* imageWidth, height from imageHeight, and "" or 0 for a missing field; a response
\* built from an item of another type, or of no type, carries the backend's fields
\* under their own names.
C20_ImageFieldsRemapped ==
    (n_pc = "done" /\ ~n_out.raised)
    => \A i \in 1..Len(n_out.responses) :
         BuiltFromObject(i)
         => /\ Len(n_out.responses[i].results) = Len(BackendItems[i].results)
            /\ \A j \in 1..Len(BackendItems[i].results) :
                 IF EchoesImageType(BackendItems[i])
                 THEN Remapped(i, j)
                 ELSE NotRemapped(i, j)

\* C20 witness: an image item with a complete and a partial result, followed by an
\* item of type "search" whose result keeps its link
C20_Witness ==
    /\ n_pc = "done" /\ ~n_out.raised /\ Len(n_out.responses) = 2
    /\ BackendCount >= 2
    /\ BackendItems[1] = ItemImagePartial /\ BackendItems[2] = ItemSearchClientImage
    /\ n_out.responses[1].results[1].link = "img2"
    /\ n_out.responses[1].results[1].source_link = "page2"
    /\ n_out.responses[1].results[2].link = "img3"
    /\ n_out.responses[1].results[2].thumbnail = ""
    /\ n_out.responses[1].results[2].width = 0
    /\ n_out.responses[2].results[1].link = "img4"
    /\ n_out.responses[2].results[1].source_link = "page4"

(***************************************************************************)
(* Claims about the request parameters, checked under SpecBuild.           *)
(***************************************************************************)
Lower ==
    ("u" :> "u") @@ ("s" :> "s") @@ ("z" :> "z") @@ ("a" :> "a") @@
    ("U" :> "u") @@ ("S" :> "s") @@ ("Z" :> "z") @@
    ("I" :> "i") @@ ("N" :> "n") @@ ("J" :> "j") @@ ("P" :> "p") @@ ("B" :> "b") @@
    ("R" :> "r") @@ ("G" :> "g") @@ ("D" :> "d") @@ ("E" :> "e") @@ ("C" :> "c") @@
    ("A" :> "a") @@ ("F" :> "f") @@ ("M" :> "m") @@ ("X" :> "x")

LowerStr(s) == [i \in 1..Len(s) |-> Lower[s[i]]]

\* the known codes a string equals when case is ignored
KnownCodesOf(s) == {c \in LocationType : LowerStr(c) = LowerStr(s)}

\* the queries as a list, and the bounds of the request in the words of the contract
ArgQueries(a) == a.query.qs

WithinBounds(a) ==
    /\ Len(ArgQueries(a)) \in 1..100
    /\ \A i \in 1..Len(ArgQueries(a)) : QueryLength[ArgQueries(a)[i]] \in 1..2048
    /\ a.num \in 1..100
    /\ a.page >= 1

IsSearch == c_last.op \in {"search", "image_search"}

\* the arguments of the last search, defaults filled in
CallArgs ==
    [query |-> c_last.call.query, num |-> Kw(c_last.call, "num", 10),
     page |-> Kw(c_last.call, "page", 1)]

OpenPools == {p \in 1..Len(pools) : pools[p].open}

\* C14: a search or image_search whose inputs are outside the bounds (0 or more than
\* 100 queries, a query of 0 or more than 2048 characters, num outside 1..100,
\* page < 1) fails with the SDK's ValidationError (serpshot.exceptions), makes no
\* request and creates no pool.
C14_OutOfBoundsRaisesSdkValidationError ==
    (IsSearch /\ ~WithinBounds(CallArgs))
    => /\ c_last.raised
       /\ c_last.exc = "serpshot.ValidationError"
       /\ c_last.requests = <<>>
       /\ c_last.opened = {}

\* C16: for both clients, a close while self._client is None (a second close, a close
\* before any pool was opened) changes no pool and raises nothing; every request of
\* a search is sent on a pool that is open, and a search that starts while
\* self._client is None (after close or exit) sends on a pool it opened itself.
C16_CloseIdempotentNoStalePool ==
    [][/\ (c_last'.op = "close" /\ c_ops' = c_ops + 1 /\ h_client = 0)
          => (pools' = pools /\ h_client' = 0 /\ ~c_last'.raised)
       /\ (c_last'.op \in {"search", "image_search"} /\ c_ops' = c_ops + 1)
          => \A i \in 1..Len(c_last'.requests) :
               LET p == c_last'.requests[i].pool
               IN  /\ p \in 1..Len(pools')
                   /\ pools'[p].open
                   /\ p <= Len(pools) => (pools[p].open /\ p = h_client)
                   /\ h_client = 0 => p \in c_last'.opened]_vars

\* C16 witness: a search after a pool was closed ran on a second pool, opened by it
C16_Witness ==
    /\ IsSearch /\ Len(c_last.requests) = 1
    /\ Len(pools) = 2 /\ ~pools[1].open /\ pools[2].open
    /\ c_last.requests[1].pool = 2 /\ c_last.opened = {2}

\* C17: at any time at most one pool of the client is open, and when close or the
\* exit of the context has returned none is.
C17_AtMostOnePoolNoLeak ==
    /\ Cardinality(OpenPools) <= 1
    /\ c_last.op \in {"close", "exit"} => OpenPools = {}

NonBlank(k) == k.kind = "str" /\ Strip[k.value] # ""

\* C18: constructing SerpShot or AsyncSerpShot with an explicit key uses that key,
\* whatever SERPSHOT_API_KEY is; without the key the variable's value is used; without
\* the key and with the variable unset the constructor raises ValueError "API key is
\* required".
C18_KeyResolutionOrder ==
    c_last.op = "init"
    => /\ (c_last.ctor.given /\ NonBlank(c_last.ctor.api_key))
          => (~c_last.raised /\ c_key = Strip[c_last.ctor.api_key.value])
       /\ (~c_last.ctor.given /\ NonBlank(c_last.ctor.env_key))
          => (~c_last.raised /\ c_key = Strip[c_last.ctor.env_key.value])
       /\ (~c_last.ctor.given /\ c_last.ctor.env_key.kind = "none")
          => /\ c_last.raised
             /\ c_last.exc = "ValueError"
             /\ c_last.message = "API key is required"

\* C19: a search or image_search within the bounds makes exactly one call of the
\* transport's request, whatever the number of queries and whatever it answers: a
\* POST to /api/search/google whose payload holds all the queries in their order
\* under queries, type "search" or "image", and page 1 unless a page was given.
C19_OneRequestPerCall ==
    (IsSearch /\ WithinBounds(CallArgs))
    => /\ Len(c_last.requests) = 1
       /\ c_last.requests[1].method = "POST"
       /\ c_last.requests[1].path = "/api/search/google"
       /\ c_last.requests[1].json.queries = c_last.call.query.qs
       /\ c_last.requests[1].json.type =
            (IF c_last.op = "search" THEN "search" ELSE "image")
       /\ c_last.requests[1].json.page =
            (IF "page" \in c_last.call.kw THEN c_last.call.page ELSE 1)

\* C19 witness: an image search for two queries made one request, with page 1
C19_Witness ==
    /\ c_last.op = "image_search" /\ ~c_last.call.query.isStr
    /\ c_last.call.query.qs = <<"qb", "qa">>
    /\ Len(c_last.requests) = 1
    /\ c_last.requests[1].json.queries = <<"qb", "qa">>
    /\ c_last.requests[1].json.type = "image"
    /\ c_last.requests[1].json.page = 1
    /\ ~c_last.raised /\ Len(c_last.out.responses) = 2

(***************************************************************************)
(* Further claims about the transport, checked under SpecReq.              *)
(***************************************************************************)
LastStatus == log[Attempts].response.status_code

\* C21: when the last attempt receives HTTP 402 request raises
\* InsufficientCreditsError, and when it receives HTTP 401 it raises
\* AuthenticationError; search hands on what request raises.
C21_CreditsAndKeyErrorsAreSpecific ==
    (r_pc = "done" /\ Attempts >= 1 /\ log[Attempts].kind = "response")
    => /\ LastStatus = 402 => (outcome.raised /\ outcome.exc = "InsufficientCreditsError")
       /\ LastStatus = 401 => (outcome.raised /\ outcome.exc = "AuthenticationError")

\* an attempt that receives an envelope with data whose code is no 200
IsEnvelopeError(o) ==
    /\ o.kind = "response"
    /\ o.response.status_code < 400
    /\ o.response.body = "object"
    /\ "data" \in o.response.json.keys
    /\ ~("code" \in o.response.json.keys /\ o.response.json.code = 200)

\* C27: when attempts 1..k (k < max_retries) fail with timeouts or connection
\* errors and attempt k+1 receives HTTP 429, request raises RateLimitError; when it
\* receives another status >= 400 or an envelope error, request raises APIError;
\* never NetworkError, and attempt k+1 is the last.
C27_FirstResponseDecides ==
    (/\ r_pc = "done" /\ Attempts >= 1
     /\ \A i \in 1..(Attempts - 1) : TransportFailure(log[i]))
    => /\ Is429(log[Attempts]) => (outcome.raised /\ outcome.exc = "RateLimitError")
       /\ (IsHttpError(log[Attempts]) \/ IsEnvelopeError(log[Attempts]))
          => (outcome.raised /\ outcome.exc = "APIError")

Max(a, b) == IF a > b THEN a ELSE b

\* C28: one call of request never makes more than max(max_retries, 0) attempts; when
\* it has ended it has made at least one if max_retries >= 1; with max_retries <= 0
\* it has made no attempt and no wait, and raises NetworkError whose original_error
\* is None.
C28_AttemptsBounded ==
    /\ Attempts <= Max(max_retries, 0)
    /\ (r_pc = "done" /\ max_retries >= 1) => Attempts >= 1
    /\ (r_pc = "done" /\ max_retries <= 0)
       => /\ Attempts = 0
          /\ waits = <<>>
          /\ outcome.raised
          /\ outcome.exc = "NetworkError"
          /\ outcome.original_error = NoError

\* C28 witness: max_retries = -1 ends in NetworkError without any attempt
C28_Witness ==
    /\ r_pc = "done" /\ max_retries = -1 /\ Attempts = 0 /\ waits = <<>>
    /\ outcome.exc = "NetworkError" /\ outcome.original_error.type = "None"

\* the operators of the two transports, by mode
InRange(m, att, maxr) ==
    IF m = "sync" THEN HTTPClient_in_range(att, maxr) ELSE AsyncHTTPClient_in_range(att, maxr)
Except(m, e) == IF m = "sync" THEN HTTPClient_except(e) ELSE AsyncHTTPClient_except(e)
Backoff(m, att, maxr) ==
    IF m = "sync" THEN HTTPClient_backoff(att, maxr) ELSE AsyncHTTPClient_backoff(att, maxr)
WaitTime(m, att) ==
    IF m = "sync" THEN HTTPClient_wait_time(att) ELSE AsyncHTTPClient_wait_time(att)
Fail(m, err) == IF m = "sync" THEN HTTPClient_fail(err) ELSE AsyncHTTPClient_fail(err)

\* what request of mode m does when its attempts meet the outcomes outs, from loop
\* index att on: the attempts made, the waits, the outcome; short when outs ends
\* before request does
RECURSIVE RequestRun(_, _, _, _, _, _)
RequestRun(m, maxr, outs, att, ws, last) ==
    IF ~InRange(m, att, maxr)
    THEN [attempts |-> att, waits |-> ws, outcome |-> Fail(m, last), short |-> FALSE]
    ELSE IF att + 1 > Len(outs)
    THEN [attempts |-> att, waits |-> ws, outcome |-> None, short |-> TRUE]
    ELSE LET r == try_body(outs[att + 1], att + 1)
             h == Except(m, r)
         IN  IF ~r.raised
             THEN [attempts |-> att + 1, waits |-> ws, outcome |-> r, short |-> FALSE]
             ELSE IF h.do = "raise"
             THEN [attempts |-> att + 1, waits |-> ws, outcome |-> h.error,
                   short |-> FALSE]
             ELSE IF h.do = "break"
             THEN [attempts |-> att + 1, waits |-> ws, outcome |-> Fail(m, h.error),
                   short |-> FALSE]
             ELSE RequestRun(m, maxr, outs, att + 1,
                             IF Backoff(m, att, maxr)
                             THEN Append(ws, [seconds |-> WaitTime(m, att),
                                              after |-> att + 1])
                             ELSE ws,
                             h.error)

OtherMode == IF mode = "sync" THEN "async" ELSE "sync"

C30_RequestTerminates == <>(r_pc = "done")

\* C30 witness: a request that used all of its three attempts and both waits
C30_Witness ==
    /\ r_pc = "done" /\ mode = "sync" /\ max_retries = 3 /\ Attempts = 3
    /\ AllTransportFailures /\ Len(waits) = 2 /\ outcome.raised

(***************************************************************************)
(* A further claim about the normalizer, checked under SpecNorm.           *)
(***************************************************************************)
\* C23: _process_search_response raises nothing, whatever the payload: items that
\* are null, no objects, lack search_info / results / search_params / credits, or
\* carry null or wrongly shaped values for them all give a response.
C23_NormalizerNeverRaises ==
    n_pc = "done" => ~n_out.raised

(***************************************************************************)
(* A claim about AuthHandler, checked under SpecAuth.                      *)
(***************************************************************************)
\* the key is None, empty or made of whitespace only
BlankKey(k) == k.kind = "none" \/ \A i \in 1..Len(k.value) : k.value[i] = " "

\* a string without the whitespace before its first and after its last other character
Trimmed(v) ==
    LET inked == {i \in 1..Len(v) : v[i] # " "}
        first == CHOOSE i \in inked : \A j \in inked : i <= j
        last == CHOOSE i \in inked : \A j \in inked : i >= j
    IN  IF inked = {} THEN <<>> ELSE SubSeq(v, first, last)

\* C26: AuthHandler(...) raises AuthenticationError exactly when the key is None,
\* empty or whitespace-only; otherwise it stores the key without the surrounding
\* whitespace, and validate raises AuthenticationError exactly when the stored key
\* has fewer than 10 characters.
C26_AuthHandlerChecks ==
    /\ a_pc \in {"failed", "ready", "validated"}
       => /\ (a_pc = "failed") <=> BlankKey(a_arg)
          /\ a_pc = "failed" => (a_out.raised /\ a_out.exc = "AuthenticationError")
          /\ a_pc # "failed" => a_key = Trimmed(a_arg.value)
    /\ a_pc = "validated"
       => /\ a_out.raised <=> Len(a_key) < 10
          /\ a_out.raised => a_out.exc = "AuthenticationError"

\* C26 witness: a key of 10 characters behind a space is stored trimmed and valid
C26_Witness ==
    /\ a_pc = "validated" /\ ~a_out.raised
    /\ Len(a_arg.value) = 11 /\ a_arg.value[1] = " "
    /\ Len(a_key) = 10

(***************************************************************************)
(* C24: when several concurrent callers share one client that has no pool  *)
(* yet, the pool is created exactly once and every caller's attempts use   *)
(* that same pool. Stated while close has not been called, so that a pool  *)
(* made again after a close does not count.                                *)
(***************************************************************************)
C24_PoolCreatedOnce ==
    closer = "idle" =>
        /\ Len(pools) <= 1
        /\ \A c \in Callers : t_seen[c].pools \subseteq {1}

C29_NoAttemptOnClosedPool ==
    mode = "async" => \A c \in Callers : ~t_seen[c].stale

====
